---- MODULE Spec2Model ----
(***************************************************************************)
(* jaunt: a barebones MySQL schema migration runner (src/jaunt/jaunt.py).  *)
(*                                                                         *)
(* The model has two parts.                                                *)
(*   - The MySQL server the tool talks to: whether the database and the    *)
(*     `_migration` table exist, the committed rows of `_migration`        *)
(*     (ledger), the committed effects of migration statements (schema),   *)
(*     and per connection the writes of its open transaction (txn).        *)
(*   - The tool's processes: one record per process holding the locals of  *)
(*     create / up / down / list_migrations and the position in them.      *)
(* Every command line argument, directory listing, file content and        *)
(* statement outcome is an input chosen when the code reads it.            *)
(***************************************************************************)
EXTENDS Integers, Sequences, FiniteSets, TLC

\* ------------------------------------------------------------------ bounds

\* Highest version number carried by a migration file name.
MaxVer == 2

\* Number of rows the table `_migration` may hold: a command is not followed
\* into a migration whose row would not fit.
MaxLedger == 4

\* Number of files in a directory given to list alone.
MaxScan == 3

\* ------------------------------------------------------------------ inputs

\* The tool's processes: each command invocation is a process of its own.
Procs == {1, 2}

\* The process that runs the commands of an operator who waits for a command
\* to end before giving the next one.
Operator == 1

PREFIX_TO_TYPE(prefix) == IF prefix = "V" THEN "up" ELSE "down"

\* A file name is the sequence of its characters.
Digits == <<"0", "1", "2", "3", "4", "5", "6", "7", "8", "9">>

IsDigit(c) == \E d \in 1..10 : Digits[d] = c

\* int(match["num"])
RECURSIVE int(_)
int(num) ==
    IF num = <<>> THEN 0
    ELSE 10 * int(SubSeq(num, 1, Len(num) - 1))
         + (CHOOSE d \in 0..9 : Digits[d + 1] = num[Len(num)])

\* str(n) for n >= 0
RECURSIVE Numeral(_)
Numeral(n) ==
    IF n < 10 THEN <<Digits[n + 1]>>
    ELSE Numeral(n \div 10) \o <<Digits[(n % 10) + 1]>>

\* MIGR_MATCH.fullmatch(name) fails: None.
NoMatch == [matched |-> FALSE]

\* One way for ^(?P<type>[UV])(?P<num>\d+)(__(?P<desc>.+))?.sql$ to match the
\* whole name: `num` takes n characters and the optional group is taken
\* (withDesc) or skipped.  The dot before sql is not escaped, so it stands
\* for any character but a newline, as do the dots of `desc`.
MatchesWith(name, n, withDesc) ==
    LET rest == SubSeq(name, n + 2, Len(name))
        tail == SubSeq(rest, Len(rest) - 2, Len(rest))
        body == SubSeq(rest, 1, Len(rest) - 4)
    IN  /\ Len(name) >= n + 5
        /\ name[1] \in {"U", "V"}
        /\ \A i \in 2..(n + 1) : IsDigit(name[i])
        /\ tail = <<"s", "q", "l">>
        /\ rest[Len(rest) - 3] # "\n"
        /\ IF withDesc
           THEN /\ Len(body) >= 3
                /\ body[1] = "_" /\ body[2] = "_"
                /\ \A i \in 3..Len(body) : body[i] # "\n"
           ELSE body = <<>>

\* MIGR_MATCH.fullmatch(name), line 13 and 262: the groups of the match the
\* regular expression engine finds first (`num` as long as can be, the
\* optional group taken if it can be), or NoMatch.  A group that took no part
\* in the match (None) is <<>>.
MIGR_MATCH(name) ==
    LET tries == { t \in (1..Len(name)) \X {TRUE, FALSE} :
                     MatchesWith(name, t[1], t[2]) }
    IN  IF tries = {} THEN NoMatch
        ELSE LET t == CHOOSE t \in tries :
                        \A o \in tries : \/ o[1] < t[1]
                                         \/ o[1] = t[1] /\ (t[2] \/ ~o[2])
                 rest == SubSeq(name, t[1] + 2, Len(name))
             IN  [ matched |-> TRUE,
                   type    |-> name[1],
                   num     |-> SubSeq(name, 2, t[1] + 1),
                   desc    |-> IF t[2] THEN SubSeq(rest, 3, Len(rest) - 4)
                               ELSE <<>> ]

\* The name <prefix><num>__<desc>.sql
FileName(prefix, num, desc) ==
    <<prefix>> \o Numeral(num) \o <<"_", "_">> \o desc \o <<".", "s", "q", "l">>

\* The migration files of a project.  Every version has an up and a down file
\* with description "a"; version 1 may also have a second file with
\* description "b" (the code does not deduplicate versions).
FileNames ==
    { FileName(f.prefix, f.num, <<f.desc>>) :
        f \in { g \in [prefix : {"V", "U"}, num : 1..MaxVer, desc : {"a", "b"}] :
                  g.desc = "b" => g.num = 1 } }

\* What a migration directory may hold, as far as a command of the given
\* direction reads it: up reads the V files only and down the U files only.
Dirs(type) == SUBSET { f \in FileNames : PREFIX_TO_TYPE(f[1]) = type }

\* The directories given to list, which reads both kinds of files.
ListDirs == Dirs("up") \cup Dirs("down") \cup {FileNames}

\* Other names a directory may hold: U10__a.sql, V1__a.psql, V12sql, U2.sql,
\* X1__a.sql, V1__a.txt.
OtherNames ==
    { <<"U", "1", "0", "_", "_", "a", ".", "s", "q", "l">>,
      <<"V", "1", "_", "_", "a", ".", "p", "s", "q", "l">>,
      <<"V", "1", "2", "s", "q", "l">>,
      <<"U", "2", ".", "s", "q", "l">>,
      <<"X", "1", "_", "_", "a", ".", "s", "q", "l">>,
      <<"V", "1", "_", "_", "a", ".", "t", "x", "t">> }

\* Directories of at most MaxScan files, of any name.
ScanDirs ==
    { dir \in SUBSET (FileNames \cup OtherNames) : Cardinality(dir) <= MaxScan }

\* The --version argument: <<>> when absent (args.version is None), <<t>> else.
Versions == {<<>>} \cup { <<t>> : t \in 0..(MaxVer + 1) }

\* The content of each file of the directories above, a batch of statements:
\* "dml" is a transactional statement (INSERT, UPDATE, ...), "ddl" is a
\* statement that MySQL commits implicitly (CREATE TABLE, DROP TABLE, ...).
\* "blank" stands for text that is not empty and holds no statement (white
\* space, a comment): a batch of one thing to send.
\* The second up file of version 1 is empty (zero length) and the second down
\* file of version 1 is blank; a down file deletes rows and then drops a
\* table; the up file of version 1 only writes rows and the later ones create
\* a table and then fill it.
Contents ==
    [ file \in FileNames |->
        LET m == MIGR_MATCH(file)
        IN  IF m.desc = <<"b">>
            THEN IF m.type = "V" THEN <<>> ELSE <<"blank">>
            ELSE IF m.type = "U" THEN <<"dml", "ddl">>
            ELSE IF int(m.num) = 1 THEN <<"dml", "dml">>
            ELSE <<"ddl", "dml">> ]

\* migr_file.read(), line 283.
FileContent(file) == Contents[file]

\* ------------------------------------------------------------- Migration

\* Migration.__init__ with the branches of the two types exchanged.
MigrationExchanged(type, ver, desc, file) ==
    [ type     |-> type,
      ver_from |-> IF type = "down" THEN ver - 1 ELSE ver,
      ver_to   |-> IF type = "down" THEN ver ELSE ver - 1,
      desc     |-> desc,
      file     |-> file ]

\* Migration.__init__
Migration(type, ver, desc, file) ==
    [ type     |-> type,
      ver_from |-> IF type = "up" THEN ver - 1 ELSE ver,
      ver_to   |-> IF type = "up" THEN ver ELSE ver - 1,
      desc     |-> desc,
      file     |-> file ]

\* Migration.ver
Ver(m) == IF m.type = "up" THEN m.ver_to ELSE m.ver_from

\* ------------------------------------------------ _get_migrations_from_dir

\* list.sort(key=lambda x: x.ver) over the files in path.iterdir() order.  The
\* sort is stable and iterdir() yields the files in arbitrary order, so the
\* result is any ascending arrangement: files of equal version in any order.
RECURSIVE SortedByVer(_)
SortedByVer(S) ==
    IF S = {} THEN { <<>> }
    ELSE LET least == { m \in S : \A o \in S : Ver(m) <= Ver(o) }
         IN  UNION { { <<m>> \o rest : rest \in SortedByVer(S \ {m}) } :
                     m \in least }

\* The possible results of _get_migrations_from_dir(path)[type], lines
\* 261-269: a Migration for every name of the directory that matches, in the
\* list of its type, each list sorted.
MigrationsFromDir(dir, type) ==
    SortedByVer({ Migration(PREFIX_TO_TYPE(MIGR_MATCH(file).type),
                            int(MIGR_MATCH(file).num),
                            MIGR_MATCH(file).desc, file) :
                  file \in { g \in dir :
                               /\ MIGR_MATCH(g).matched
                               /\ PREFIX_TO_TYPE(MIGR_MATCH(g).type) = type } })

\* The directories the commands are given.
AllDirs == ListDirs \cup ScanDirs

\* _get_migrations_from_dir(path)[type] for every directory the commands are
\* given: the possible lists.
Scanned ==
    [ dir \in AllDirs |->
        [ type \in {"up", "down"} |-> MigrationsFromDir(dir, type) ] ]

_get_migrations_from_dir(dir) == Scanned[dir]

\* ------------------------------------------------------------------ bisect

\* bisect.bisect (= bisect_right) with key=lambda x: x.ver, as the standard
\* library computes it; lo and hi are 0-based as in Python.
RECURSIVE BisectLoop(_, _, _, _)
BisectLoop(a, x, lo, hi) ==
    IF lo < hi
    THEN LET mid == (lo + hi) \div 2
         IN  IF x < Ver(a[mid + 1])
             THEN BisectLoop(a, x, lo, mid)
             ELSE BisectLoop(a, x, mid + 1, hi)
    ELSE lo

\* bisect_left in the place of bisect: an element equal to x lands right of
\* the cut.
RECURSIVE BisectLeftLoop(_, _, _, _)
BisectLeftLoop(a, x, lo, hi) ==
    IF lo < hi
    THEN LET mid == (lo + hi) \div 2
         IN  IF Ver(a[mid + 1]) < x
             THEN BisectLeftLoop(a, x, mid + 1, hi)
             ELSE BisectLeftLoop(a, x, lo, mid)
    ELSE lo

bisect_left(a, x) == BisectLeftLoop(a, x, 0, Len(a))

bisect(a, x) == BisectLoop(a, x, 0, Len(a))

\* Python's a[i:j] for 0 <= i, 0 <= j.
Slice(a, i, j) == SubSeq(a, i + 1, IF j < Len(a) THEN j ELSE Len(a))

\* sorted(...) without reverse=True: the slice is ascending already.
SortedForward(s) == s

\* sorted(seq, key=lambda x: x.ver, reverse=True): stable, so elements of
\* equal version keep their order.
RECURSIVE SortedReverse(_)
SortedReverse(s) ==
    IF s = <<>> THEN <<>>
    ELSE LET top == CHOOSE i \in 1..Len(s) :
                       /\ \A j \in 1..Len(s) : Ver(s[j]) <= Ver(s[i])
                       /\ \A j \in 1..(i - 1) : Ver(s[j]) < Ver(s[i])
         IN  <<s[top]>> \o
             SortedReverse(SubSeq(s, 1, top - 1) \o SubSeq(s, top + 1, Len(s)))

\* ---------------------------------------------------------------- selection

\* up, lines 149-151 and 165-167: what is left of the up list.
UpSelect(migrations, version, curr_version) ==
    LET cut == IF version # <<>>
               THEN Slice(migrations, 0, bisect(migrations, version[1]))
               ELSE migrations
    IN  Slice(cut, bisect(cut, curr_version), Len(cut))

\* down, lines 95 and 108-110.
DownSelect(migrations, version, curr_version) ==
    LET end   == bisect(migrations, version[1])
        start == bisect(migrations, curr_version)
    IN  SortedReverse(Slice(migrations, end, start))

\* ------------------------------------------------------------------ hashing

\* create, lines 64-65: sha1 of the tool's own source file.
base_hash == << <<"jaunt.py">> >>

\* _apply_migration, lines 292-293: sha1((last_hash + query).encode()).  A
\* digest is modelled by what was digested (SHA-1 taken as collision free):
\* the digest of last_hash + query is the chain behind last_hash extended by
\* query.  last_hash is a 40 character hex string, so the concatenation
\* determines both parts.
\* The digest of the content alone behind the seed: last_hash not chained.
NextHashUnchained(last_hash, query) == Append(base_hash, query)

NextHash(last_hash, query) == Append(last_hash, query)

\* ------------------------------------------------------------------- state

VARIABLES
    dbExists,     \* the database args.db exists on the server
    tableExists,  \* the table `_migration` exists in it
    ledger,       \* committed rows of `_migration`, in the order of `date`
    schema,       \* per connection: the migration statements it sent whose
                  \* effects are committed (no command reads the schema, so
                  \* what earlier commands left in it is not kept)
    txn,          \* per connection: rows and effects written but not committed
    rs            \* per process: the locals of the running command

vars == <<dbExists, tableExists, ledger, schema, txn, rs>>

NoTxn == [ledger |-> <<>>, schema |-> {}]

\* The locals of a process that runs no command.
IdleRun ==
    [ pc             |-> "idle",
      cmd            |-> "none",
      version        |-> <<>>,    \* args.version
      migrations     |-> <<>>,    \* the list read from the directory, then
                                  \* what the slicing leaves of it
      curr_version   |-> 0,
      migration_hash |-> <<>>,
      i              |-> 0,       \* position of the for loop in migrations
      query          |-> <<>>,    \* content of the file being applied
      k              |-> 0,       \* statement of query being executed
      result         |-> "none",  \* "ok": returned; "error": an exception
                                  \* ended the process
      warned         |-> FALSE,   \* a WARN line was printed
      failed         |-> 0,       \* position of the migration that raised
      nexec          |-> 0,       \* migration statements sent so far
      reads          |-> <<>>,    \* content read for migrations[1..i]
      dir            |-> {},      \* list: the names in args.migration_dir
      scanned        |-> [up |-> <<>>, down |-> <<>>],
                                  \* list: what _get_migrations_from_dir
                                  \* returned
      ledger0        |-> <<>> ]   \* ledger when the command started

Init ==
    /\ dbExists = FALSE
    /\ tableExists = FALSE
    /\ ledger = <<>>
    /\ schema = [p \in Procs |-> {}]
    /\ txn = [p \in Procs |-> NoTxn]
    /\ rs = [p \in Procs |-> IdleRun]

\* ------------------------------------------------------------------ server

\* SELECT ... FROM _migration ORDER BY date DESC LIMIT 1 over the committed
\* rows (lines 98-103 and 154-159).  `date` is the reading of datetime.now()
\* taken when the row is inserted; the clock does not go back, so the rows
\* are in the order of their dates and the latest row is the last one.
LatestEntry(rows) == rows[Len(rows)]

\* conn.commit(): the connection's open transaction becomes durable.
Committed(p) ==
    /\ ledger' = ledger \o txn[p].ledger
    /\ schema' = [schema EXCEPT ![p] = @ \cup txn[p].schema]
    /\ txn' = [txn EXCEPT ![p] = NoTxn]

\* The connection is dropped without a commit (the process ended on an
\* exception or was killed): the server rolls its open transaction back.
RolledBack(p) ==
    /\ txn' = [txn EXCEPT ![p] = NoTxn]
    /\ UNCHANGED ledger

\* A command starts: a process of the tool is launched.
Begin(p) == rs[p].pc = "idle"

Started(cmd) ==
    [IdleRun EXCEPT !.cmd = cmd, !.ledger0 = ledger]

\* The process ends on an uncaught exception.
Raised(r) == [r EXCEPT !.pc = "done", !.result = "error"]

\* ---------------------------------------------------------- _record_migration

\* _record_migration, lines 300-310: INSERT INTO `_migration` VALUES
\* (datetime.now(), version, migration, migr_hash, None) in the connection's
\* open transaction.  `date` is the row's place in the ledger (see
\* LatestEntry); schema_hash is always NULL and is left out.
_record_migration(p, version, migration, migr_hash) ==
    txn' = [txn EXCEPT ![p].ledger =
              Append(@, [ version        |-> version,
                          migration      |-> migration,
                          migration_hash |-> migr_hash ])]

\* ------------------------------------------------------------------ create

\* create with DROP DATABASE IF EXISTS before CREATE DATABASE: an existing
\* database is wiped and made anew.
create_afresh(p) ==
    /\ Begin(p)
    /\ rs' = [rs EXCEPT ![p] = [Started("create") EXCEPT
                                   !.pc = "create_table"]]
    /\ dbExists' = TRUE
    /\ tableExists' = FALSE
    /\ ledger' = <<>>
    /\ UNCHANGED <<schema, txn>>

\* create with CREATE DATABASE IF NOT EXISTS (and CREATE TABLE IF NOT
\* EXISTS): an existing database is no error.
create_if_not_exists(p) ==
    /\ Begin(p)
    /\ rs' = [rs EXCEPT ![p] = [Started("create") EXCEPT
                                   !.pc = "create_table"]]
    /\ dbExists' = TRUE
    /\ UNCHANGED <<tableExists, ledger, schema, txn>>

\* create, lines 64-75: connect to the server and CREATE DATABASE, which
\* fails when the database exists.  CREATE DATABASE is not transactional.
create(p) ==
    /\ Begin(p)
    /\ IF dbExists
       THEN /\ rs' = [rs EXCEPT ![p] = Raised(Started("create"))]
            /\ UNCHANGED dbExists
       ELSE /\ rs' = [rs EXCEPT ![p] = [Started("create") EXCEPT
                                          !.pc = "create_table"]]
            /\ dbExists' = TRUE
    /\ UNCHANGED <<tableExists, ledger, schema, txn>>

\* create, lines 76-77: USE the database and CREATE TABLE `_migration`
\* (MIGR_TABLE), which MySQL commits at once.  The database was created by
\* this process a step ago, so the table cannot exist yet.
create_table(p) ==
    /\ rs[p].pc = "create_table"
    /\ rs' = [rs EXCEPT ![p].pc = "create_record"]
    /\ tableExists' = TRUE
    /\ UNCHANGED <<dbExists, ledger, schema, txn>>

\* create, line 78: the genesis row.
create_record(p) ==
    /\ rs[p].pc = "create_record"
    /\ _record_migration(p, -1, [name |-> "__baseline__"], base_hash)
    /\ rs' = [rs EXCEPT ![p].pc = "create_commit"]
    /\ UNCHANGED <<dbExists, tableExists, ledger, schema>>

\* create, lines 80-81.
create_commit(p) ==
    /\ rs[p].pc = "create_commit"
    /\ Committed(p)
    /\ rs' = [rs EXCEPT ![p].pc = "done", ![p].result = "ok"]
    /\ UNCHANGED <<dbExists, tableExists>>

\* ----------------------------------------------------------- list_migrations

\* list with a connection that logs the listing in `_migration`.
list_migrations_logged(p, dir) ==
    /\ Begin(p)
    /\ rs' = [rs EXCEPT ![p] = [Started("list") EXCEPT
                                   !.dir = dir, !.pc = "done", !.result = "ok"]]
    /\ ledger' = IF tableExists
                 THEN Append(ledger, [ version        |-> 0,
                                       migration      |-> [name |-> "list"],
                                       migration_hash |-> base_hash ])
                 ELSE ledger
    /\ UNCHANGED <<dbExists, tableExists, schema, txn>>

\* Migration.__repr__, line 59: f"{self.desc:<24}" raises TypeError when the
\* name had no description (desc is None).
CanRepr(m) == m.desc # <<>>

\* list_migrations, lines 129-135: prints the two lists; no connection.
list_migrations(p, dir) ==
    /\ Begin(p)
    /\ \E ups \in _get_migrations_from_dir(dir)["up"],
          downs \in _get_migrations_from_dir(dir)["down"] :
         rs' = [rs EXCEPT ![p] =
                  [Started("list") EXCEPT
                     !.dir     = dir,
                     !.scanned = [up |-> ups, down |-> downs],
                     !.pc      = "done",
                     !.result  = IF \A n \in 1..Len(ups \o downs) :
                                       CanRepr((ups \o downs)[n])
                                  THEN "ok" ELSE "error"]]
    /\ UNCHANGED <<dbExists, tableExists, ledger, schema, txn>>

\* ------------------------------------------------------------------ up, down

\* up, lines 138-147: the up list of the directory, then the connection, which
\* raises when the database does not exist.
up(p, dir, version) ==
    /\ Begin(p)
    /\ \E ms \in _get_migrations_from_dir(dir)["up"] :
         LET r == [Started("up") EXCEPT !.version = version, !.migrations = ms]
         IN  rs' = [rs EXCEPT ![p] = IF dbExists
                                     THEN [r EXCEPT !.pc = "select"]
                                     ELSE Raised(r)]
    /\ UNCHANGED <<dbExists, tableExists, ledger, schema, txn>>

\* down, lines 84-93; --version is required.
down(p, dir, version) ==
    /\ version # <<>>
    /\ Begin(p)
    /\ \E ms \in _get_migrations_from_dir(dir)["down"] :
         LET r == [Started("down") EXCEPT !.version = version,
                                          !.migrations = ms]
         IN  rs' = [rs EXCEPT ![p] = IF dbExists
                                     THEN [r EXCEPT !.pc = "select"]
                                     ELSE Raised(r)]
    /\ UNCHANGED <<dbExists, tableExists, ledger, schema, txn>>

\* The SELECT of the latest row (lines 97-105, 153-161) raises when the table
\* is missing, and next(cursor) raises StopIteration when it holds no row.
CanReadLatest == tableExists /\ ledger # <<>>

\* The slicing of either command.
Select(cmd, migrations, version, curr_version) ==
    IF cmd = "up"
    THEN UpSelect(migrations, version, curr_version)
    ELSE DownSelect(migrations, version, curr_version)

\* An empty list treated as an error of the command.
SlicedOrRaised(r, latest, sel) ==
    IF sel = <<>>
    THEN [r EXCEPT !.migrations   = sel,
                   !.curr_version = latest.version,
                   !.pc           = "done",
                   !.result       = "error"]
    ELSE [r EXCEPT !.migrations     = sel,
                   !.curr_version   = latest.version,
                   !.migration_hash = latest.migration_hash,
                   !.i              = 1,
                   !.pc             = "read"]

\* The locals once the latest row is read and the list sliced (lines 160-174,
\* 104-117): nothing left to apply is a warning and a normal return; what is
\* left is printed with repr before the first migration is applied.
Sliced(r, latest, sel) ==
    IF \A n \in 1..Len(sel) : CanRepr(sel[n])
    THEN [r EXCEPT !.migrations     = sel,
                   !.curr_version   = latest.version,
                   !.migration_hash = latest.migration_hash,
                   !.i              = IF sel = <<>> THEN 0 ELSE 1,
                   !.warned         = (sel = <<>>),
                   !.pc             = IF sel = <<>> THEN "done" ELSE "read",
                   !.result         = IF sel = <<>> THEN "ok" ELSE "none"]
    ELSE Raised([r EXCEPT !.migrations     = sel,
                          !.curr_version   = latest.version,
                          !.migration_hash = latest.migration_hash])

\* select that takes an empty table for a database at version 0, seeded with
\* the hash of the tool.
select_or_default(p) ==
    /\ rs[p].pc = "select"
    /\ IF tableExists
       THEN LET latest == IF ledger # <<>> THEN LatestEntry(ledger)
                          ELSE [version |-> 0, migration_hash |-> base_hash]
                sel    == Select(rs[p].cmd, rs[p].migrations, rs[p].version,
                                 latest.version)
            IN  rs' = [rs EXCEPT ![p] = Sliced(@, latest, sel)]
       ELSE rs' = [rs EXCEPT ![p] = Raised(@)]
    /\ UNCHANGED <<dbExists, tableExists, ledger, schema, txn>>

\* select behind a lock on the database (GET_LOCK with no wait): the command
\* raises when another process is in the middle of a command.
select_locked(p) ==
    /\ rs[p].pc = "select"
    /\ IF CanReadLatest /\ \A q \in Procs \ {p} : rs[q].pc \in {"idle", "done"}
       THEN LET latest == LatestEntry(ledger)
                sel    == Select(rs[p].cmd, rs[p].migrations, rs[p].version,
                                 latest.version)
            IN  rs' = [rs EXCEPT ![p] = Sliced(@, latest, sel)]
       ELSE rs' = [rs EXCEPT ![p] = Raised(@)]
    /\ UNCHANGED <<dbExists, tableExists, ledger, schema, txn>>

\* up, lines 149-174, and down, lines 95-117: read the latest row, slice the
\* list, print what is to be applied.
select(p) ==
    /\ rs[p].pc = "select"
    /\ IF CanReadLatest
       THEN LET latest == LatestEntry(ledger)
                sel    == Select(rs[p].cmd, rs[p].migrations, rs[p].version,
                                 latest.version)
            IN  rs' = [rs EXCEPT ![p] = Sliced(@, latest, sel)]
       ELSE rs' = [rs EXCEPT ![p] = Raised(@)]
    /\ UNCHANGED <<dbExists, tableExists, ledger, schema, txn>>

\* ----------------------------------------------------------- _apply_migration

\* The effect of statement k of the file of migration m.
Effect(m, k) == [file |-> m.file, stmt |-> k]

\* _apply_migration, lines 282-287: read the file; cursor.execute(query,
\* multi=True) returns None for an empty query, which is only a warning.
_apply_migration_read(p) ==
    /\ rs[p].pc = "read"
    /\ Len(ledger) < MaxLedger
    /\ LET q == FileContent(rs[p].migrations[rs[p].i].file)
       IN  rs' = [rs EXCEPT ![p].query  = q,
                            ![p].reads  = Append(@, q),
                            ![p].k      = IF q = <<>> THEN 0 ELSE 1,
                            ![p].warned = @ \/ (q = <<>>),
                            ![p].pc     = IF q = <<>> THEN "record"
                                                      ELSE "exec"]
    /\ UNCHANGED <<dbExists, tableExists, ledger, schema, txn>>

\* A statement that ran: a "dml" statement writes in the open transaction; a
\* "ddl" statement makes MySQL commit the open transaction, and is itself
\* durable at once.
StatementDone(p, kind, eff) ==
    IF kind = "ddl"
    THEN /\ ledger' = ledger \o txn[p].ledger
         /\ schema' = [schema EXCEPT ![p] = (@ \cup txn[p].schema) \cup {eff}]
         /\ txn' = [txn EXCEPT ![p] = NoTxn]
    ELSE /\ txn' = [txn EXCEPT ![p].schema = @ \cup {eff}]
         /\ UNCHANGED <<ledger, schema>>

\* A statement that failed has no effect of its own and ends the process, so
\* the open transaction is rolled back; when the statement is a "ddl" one
\* that failed after MySQL's implicit commit (not at parsing), what the
\* transaction held is already durable.
StatementFailed(p, kind) ==
    \/ RolledBack(p) /\ UNCHANGED schema
    \/ kind = "ddl" /\ Committed(p)

\* _apply_migration inside try/except in the loop: the error of a statement
\* is noted and the loop goes on with the next migration.
_apply_migration_execute_caught(p) ==
    LET r    == rs[p]
        kind == r.query[r.k]
    IN  /\ r.pc = "exec"
        /\ \/ /\ kind # "blank"
              /\ StatementDone(p, kind, Effect(r.migrations[r.i], r.k))
              /\ rs' = [rs EXCEPT ![p].nexec = @ + 1,
                                  ![p].k     = @ + 1,
                                  ![p].pc    = IF r.k = Len(r.query)
                                               THEN "record" ELSE "exec"]
           \/ /\ StatementFailed(p, kind)
              /\ rs' = [rs EXCEPT ![p] =
                          IF r.i < Len(r.migrations)
                          THEN [r EXCEPT !.nexec = @ + 1, !.failed = r.i,
                                         !.i = @ + 1, !.pc = "read"]
                          ELSE [Raised(r) EXCEPT !.nexec = @ + 1,
                                                 !.failed = r.i]]
        /\ UNCHANGED <<dbExists, tableExists>>

\* _apply_migration, lines 285-290: the statements of the batch run one after
\* the other and the first error is raised when its result is read.  Only the
\* empty string makes cursor.execute return None; blank text is sent, and the
\* server answers a query without a statement with an error (1065, "Query
\* was empty").
_apply_migration_execute(p) ==
    LET r    == rs[p]
        kind == r.query[r.k]
    IN  /\ r.pc = "exec"
        /\ \/ /\ kind # "blank"
              /\ StatementDone(p, kind, Effect(r.migrations[r.i], r.k))
              /\ rs' = [rs EXCEPT ![p].nexec = @ + 1,
                                  ![p].k     = @ + 1,
                                  ![p].pc    = IF r.k = Len(r.query)
                                               THEN "record" ELSE "exec"]
           \/ /\ StatementFailed(p, kind)
              /\ rs' = [rs EXCEPT ![p] = [Raised(r) EXCEPT
                                            !.nexec  = @ + 1,
                                            !.failed = r.i]]
        /\ UNCHANGED <<dbExists, tableExists>>

\* _apply_migration that records migration.ver, the key of the descriptor, as
\* the version of the row.
_apply_migration_record_ver(p) ==
    LET r    == rs[p]
        hash == NextHash(r.migration_hash, r.query)
    IN  /\ r.pc = "record"
        /\ _record_migration(p, Ver(r.migrations[r.i]),
                             r.migrations[r.i].file, hash)
        /\ rs' = [rs EXCEPT ![p].migration_hash = hash, ![p].pc = "commit"]
        /\ UNCHANGED <<dbExists, tableExists, ledger, schema>>

\* _apply_migration, lines 292-297, and the assignment of line 179 (122).
_apply_migration_record(p) ==
    LET r    == rs[p]
        hash == NextHash(r.migration_hash, r.query)
    IN  /\ r.pc = "record"
        /\ _record_migration(p, r.migrations[r.i].ver_to,
                             r.migrations[r.i].file, hash)
        /\ rs' = [rs EXCEPT ![p].migration_hash = hash, ![p].pc = "commit"]
        /\ UNCHANGED <<dbExists, tableExists, ledger, schema>>

\* conn.commit() moved behind the loop: one commit for the whole run.
commit_at_end(p) ==
    /\ rs[p].pc = "commit"
    /\ IF rs[p].i < Len(rs[p].migrations)
       THEN /\ rs' = [rs EXCEPT ![p].i = @ + 1, ![p].pc = "read"]
            /\ UNCHANGED <<ledger, schema, txn>>
       ELSE /\ Committed(p)
            /\ rs' = [rs EXCEPT ![p].pc = "done", ![p].result = "ok"]
    /\ UNCHANGED <<dbExists, tableExists>>

\* conn.commit() of line 180 (123), then the next migration or "All done!".
commit(p) ==
    /\ rs[p].pc = "commit"
    /\ Committed(p)
    /\ rs' = [rs EXCEPT ![p] =
                IF @.i < Len(@.migrations)
                THEN [@ EXCEPT !.i = @ + 1, !.pc = "read"]
                ELSE [@ EXCEPT !.pc = "done", !.result = "ok"]]
    /\ UNCHANGED <<dbExists, tableExists>>

\* ----------------------------------------------------------------- processes

\* The process is killed (or loses its connection) in the middle of a
\* command: its locals are gone and its open transaction is rolled back.
kill(p) ==
    /\ rs[p].pc \notin {"idle", "done"}
    /\ RolledBack(p)
    /\ rs' = [rs EXCEPT ![p] = IdleRun]
    /\ schema' = [schema EXCEPT ![p] = {}]
    /\ UNCHANGED <<dbExists, tableExists>>

\* The process is gone; its locals with it.
exit(p) ==
    /\ rs[p].pc = "done"
    /\ rs' = [rs EXCEPT ![p] = IdleRun]
    /\ schema' = [schema EXCEPT ![p] = {}]
    /\ UNCHANGED <<dbExists, tableExists, ledger, txn>>

Launch(p) ==
    \/ create(p)
    \/ \E dir \in ListDirs : list_migrations(p, dir)
    \/ \E dir \in Dirs("up"), version \in Versions : up(p, dir, version)
    \/ \E dir \in Dirs("down"), version \in Versions : down(p, dir, version)

Step(p) ==
    \/ create_table(p)
    \/ create_record(p)
    \/ create_commit(p)
    \/ select(p)
    \/ _apply_migration_read(p)
    \/ _apply_migration_execute(p)
    \/ _apply_migration_record(p)
    \/ commit(p)
    \/ kill(p)
    \/ exit(p)

\* One command at a time: every command is run by the operator's process.
Next == Launch(Operator) \/ Step(Operator)

Spec == Init /\ [][Next]_vars

\* ------------------------------------------------------------------ claims

SeqSet(q) == { q[n] : n \in 1..Len(q) }

\* The rows committed since the command of p started.
NewRows(p) == SubSeq(ledger, Len(rs[p].ledger0) + 1, Len(ledger))

\* p is in the for loop over the migrations to apply.
Applying(p) == rs[p].pc \in {"read", "exec", "record", "commit"}

\* p runs up or down and has sliced its list.
HasSliced(p) ==
    /\ rs[p].cmd \in {"up", "down"}
    /\ \/ Applying(p)
       \/ rs[p].pc = "done" /\ (rs[p].result = "ok" \/ rs[p].failed > 0)

\* A step of p that reads the latest row and slices the list.
SliceStep(p) ==
    /\ rs[p].pc = "select"
    /\ rs'[p].pc \in {"read", "done"}
    /\ rs'[p].result # "error"

\* The rows p has committed are those of the first migrations of its list,
\* in the order of the list.
RowsFollowList(p) ==
    /\ Len(NewRows(p)) <= Len(rs[p].migrations)
    /\ \A j \in 1..Len(NewRows(p)) :
         /\ NewRows(p)[j].migration = rs[p].migrations[j].file
         /\ NewRows(p)[j].version = rs[p].migrations[j].ver_to

\* What the statements of the first n migrations of p's list do.
EffectsOfFirst(p, n) ==
    UNION { { Effect(rs[p].migrations[j], k) : k \in 1..Len(rs[p].reads[j]) } :
            j \in 1..n }

\* The target of an up: --version, or the highest version of the list.
UpTarget(avail, version) ==
    IF version # <<>> THEN version[1]
    ELSE IF avail = <<>> THEN 0
    ELSE avail[Len(avail)].ver_to

\* C1, the slicing of up: the list left by the slicing holds exactly the
\* migrations of the directory's up list with c < ver_to <= t, once each, in
\* ascending order of version, where c is the version of the latest row and t
\* is --version or, without it, the highest version of the list.
C1_UpSlice ==
    \A p \in Procs :
      (SliceStep(p) /\ rs[p].cmd = "up") =>
        LET avail == rs[p].migrations
            sel   == rs'[p].migrations
            c     == ledger[Len(ledger)].version
            t     == UpTarget(avail, rs[p].version)
            want  == { m \in SeqSet(avail) : c < m.ver_to /\ m.ver_to <= t }
        IN  /\ SeqSet(sel) = want
            /\ Len(sel) = Cardinality(want)
            /\ \A a, b \in 1..Len(sel) : a < b => sel[a].ver_to <= sel[b].ver_to

\* C1, the application: an up run commits the rows of its list from the first
\* on, in ascending order of version, and all of them when it returns.
C1_UpApplied ==
    \A p \in Procs :
      (HasSliced(p) /\ rs[p].cmd = "up") =>
        /\ RowsFollowList(p)
        /\ \A a, b \in 1..Len(NewRows(p)) :
             a < b => NewRows(p)[a].version <= NewRows(p)[b].version
        /\ (rs[p].pc = "done" /\ rs[p].result = "ok") =>
             Len(NewRows(p)) = Len(rs[p].migrations)

\* C1: up selects exactly the migrations with c < version_to <= t and applies
\* them in ascending order of version.
C1_UpSelection == [][C1_UpSlice]_vars /\ []C1_UpApplied

\* An up to an explicit target returned after applying two migrations, the
\* latest row being at the target.
C1_Witness ==
    \E p \in Procs :
      /\ rs[p].cmd = "up" /\ rs[p].pc = "done" /\ rs[p].result = "ok"
      /\ rs[p].version # <<>>
      /\ Len(rs[p].migrations) = 2
      /\ Len(NewRows(p)) = 2
      /\ ledger[Len(ledger)].version = rs[p].version[1]

\* C2, the slicing of down: the list left by the slicing holds exactly the
\* migrations of the directory's down list with t < ver_from <= c, once each,
\* in descending order of version.
C2_DownSlice ==
    \A p \in Procs :
      (SliceStep(p) /\ rs[p].cmd = "down") =>
        LET avail == rs[p].migrations
            sel   == rs'[p].migrations
            c     == ledger[Len(ledger)].version
            t     == rs[p].version[1]
            want  == { m \in SeqSet(avail) : t < m.ver_from /\ m.ver_from <= c }
        IN  /\ SeqSet(sel) = want
            /\ Len(sel) = Cardinality(want)
            /\ \A a, b \in 1..Len(sel) :
                 a < b => sel[a].ver_from >= sel[b].ver_from

\* C2, the application: a down run commits the rows of its list from the
\* first on, the highest version first, and all of them when it returns.
C2_DownApplied ==
    \A p \in Procs :
      (HasSliced(p) /\ rs[p].cmd = "down") =>
        /\ RowsFollowList(p)
        /\ \A a, b \in 1..Len(NewRows(p)) :
             a < b => NewRows(p)[a].version >= NewRows(p)[b].version
        /\ (rs[p].pc = "done" /\ rs[p].result = "ok") =>
             Len(NewRows(p)) = Len(rs[p].migrations)

\* C2: down selects exactly the migrations with t < version_from <= c and
\* applies them in descending order of version.
C2_DownSelection == [][C2_DownSlice]_vars /\ []C2_DownApplied

\* A down returned after tearing down version 2 and then version 1.
C2_Witness ==
    \E p \in Procs :
      /\ rs[p].cmd = "down" /\ rs[p].pc = "done" /\ rs[p].result = "ok"
      /\ Len(rs[p].migrations) = 2
      /\ rs[p].migrations[1].ver_from = 2
      /\ rs[p].migrations[2].ver_from = 1
      /\ Len(NewRows(p)) = 2
      /\ ledger[Len(ledger)].version = 0

\* C3: when a statement of the i-th migration of a run fails, the rows
\* committed by the run are those of the migrations before it, in order, the
\* committed effects are exactly those of the statements of the migrations
\* before it, and the run ends in an error at that migration.
C3_PartialFailure ==
    \A p \in Procs :
      (rs[p].pc = "done" /\ rs[p].failed > 0) =>
        /\ rs[p].result = "error"
        /\ Len(NewRows(p)) = rs[p].failed - 1
        /\ RowsFollowList(p)
        /\ schema[p] = EffectsOfFirst(p, rs[p].failed - 1)

\* C4: at every point of a run, the migrations whose statements have
\* committed effects are exactly the migrations whose row is committed.
C4_Atomicity ==
    \A p \in Procs :
      HasSliced(p) =>
        /\ RowsFollowList(p)
        /\ schema[p] = EffectsOfFirst(p, Len(NewRows(p)))

\* SHA1(previous hash + content), as the design states it.
Chain(previous_hash, content) == previous_hash \o <<content>>

\* C5: the hash of every row but the first is Chain(hash of the row before
\* it, content of the row's migration file); and whenever a run is about to
\* apply a migration, or has ended, the hash it carries is that of the
\* latest committed row (between the INSERT of a row and its commit it is
\* the hash of that row, the only one pending).
C5_HashChain ==
    /\ \A n \in 2..Len(ledger) :
         ledger[n].migration_hash =
           Chain(ledger[n - 1].migration_hash, FileContent(ledger[n].migration))
    /\ \A p \in Procs :
         HasSliced(p) =>
           IF rs[p].pc = "commit"
           THEN /\ Len(txn[p].ledger) = 1
                /\ rs[p].migration_hash = txn[p].ledger[1].migration_hash
                /\ rs[p].migration_hash =
                     Chain(ledger[Len(ledger)].migration_hash,
                           FileContent(txn[p].ledger[1].migration))
           ELSE /\ txn[p].ledger = <<>>
                /\ rs[p].migration_hash = ledger[Len(ledger)].migration_hash

\* A run that found two rows in the ledger has committed two more.
C5_Witness ==
    \E p \in Procs :
      /\ rs[p].pc = "done" /\ rs[p].result = "ok"
      /\ Len(rs[p].ledger0) = 2
      /\ Len(NewRows(p)) = 2

\* C6: every step leaves the committed rows as they were, or adds rows after
\* them.
C6_AppendOnly ==
    [][ /\ Len(ledger) <= Len(ledger')
        /\ SubSeq(ledger', 1, Len(ledger)) = ledger ]_vars

\* A run has committed a row and then failed, after an earlier run.
C6_Witness ==
    \E p \in Procs :
      /\ rs[p].pc = "done" /\ rs[p].failed = 2
      /\ Len(rs[p].ledger0) >= 2
      /\ Len(ledger) = Len(rs[p].ledger0) + 1

\* C7: an up whose --version is given and not above the version of the latest
\* row ends in an error, sends no statement and commits no row.
C7_UpRangeError ==
    \A p \in Procs :
      ( /\ HasSliced(p) /\ rs[p].cmd = "up"
        /\ rs[p].version # <<>>
        /\ rs[p].version[1] <= rs[p].curr_version ) =>
        /\ rs[p].result = "error"
        /\ rs[p].nexec = 0
        /\ ledger = rs[p].ledger0

\* C8: a down whose --version is not below the version of the latest row ends
\* in an error, sends no statement and commits no row.
C8_DownRangeError ==
    \A p \in Procs :
      ( /\ HasSliced(p) /\ rs[p].cmd = "down"
        /\ rs[p].version[1] >= rs[p].curr_version ) =>
        /\ rs[p].result = "error"
        /\ rs[p].nexec = 0
        /\ ledger = rs[p].ledger0

\* The migrations the design selects from a list.
Wanted(cmd, avail, version, c) ==
    IF cmd = "up"
    THEN { m \in SeqSet(avail) :
             c < m.ver_to /\ m.ver_to <= UpTarget(avail, version) }
    ELSE { m \in SeqSet(avail) : version[1] < m.ver_from /\ m.ver_from <= c }

\* C9: when no migration of the list is selected, the step that slices the
\* list ends the command with a warning and without an error, no statement
\* sent, and leaves the ledger and the open transaction untouched.
C9_EmptySelection ==
    [][ \A p \in Procs :
          ( /\ rs[p].pc = "select"
            /\ rs'[p] # rs[p]
            /\ rs'[p].pc # "idle"
            /\ tableExists /\ ledger # <<>>
            /\ Wanted(rs[p].cmd, rs[p].migrations, rs[p].version,
                      ledger[Len(ledger)].version) = {} ) =>
            /\ rs'[p].pc = "done"
            /\ rs'[p].result = "ok"
            /\ rs'[p].warned
            /\ rs'[p].nexec = 0
            /\ rs'[p].migrations = <<>>
            /\ UNCHANGED <<ledger, schema, txn>> ]_vars

\* An up without --version returned with a warning, the ledger being at the
\* highest version already.
C9_Witness ==
    \E p \in Procs :
      /\ rs[p].cmd = "up" /\ rs[p].pc = "done" /\ rs[p].result = "ok"
      /\ rs[p].version = <<>>
      /\ rs[p].migrations = <<>>
      /\ rs[p].warned
      /\ rs[p].curr_version = MaxVer
      /\ ledger = rs[p].ledger0

\* The genesis row.
Genesis ==
    [version |-> -1, migration |-> [name |-> "__baseline__"],
     migration_hash |-> base_hash]

\* C10: a create of a database that does not exist ends with the genesis row
\* as the only row; a create of a database that exists ends in an error and
\* changes nothing on the server; and a ledger that holds rows holds the
\* genesis row first and nowhere else.
C10_CreateOnce ==
    /\ [][ \A p \in Procs :
             (rs[p].pc = "idle" /\ rs'[p].cmd = "create" /\ dbExists) =>
               /\ rs'[p].pc = "done" /\ rs'[p].result = "error"
               /\ UNCHANGED <<dbExists, tableExists, ledger, schema, txn>> ]_vars
    /\ [](\A p \in Procs :
            (rs[p].cmd = "create" /\ rs[p].pc = "done" /\ rs[p].result = "ok")
              => (rs[p].ledger0 = <<>> /\ ledger = <<Genesis>>))
    /\ [](ledger # <<>> =>
            /\ ledger[1] = Genesis
            /\ \A n \in 2..Len(ledger) :
                 /\ ledger[n].migration # Genesis.migration
                 /\ ledger[n].version # Genesis.version)

\* A create has ended in an error on a ledger that holds the genesis row and
\* the rows of later runs.
C10_Witness ==
    \E p \in Procs :
      /\ rs[p].cmd = "create" /\ rs[p].pc = "done" /\ rs[p].result = "error"
      /\ Len(ledger) >= 3
      /\ ledger[1] = Genesis

\* C11: list is read-only.  Every step of a list command, from its launch to
\* the end of its process, wherever it falls among the other commands, leaves
\* the database, the table `_migration`, its committed rows, the committed
\* effects of migration statements and the open transactions as they were.
C11_ListReadOnly ==
    [][ \A p \in Procs :
          (rs[p].cmd = "list" \/ rs'[p].cmd = "list") =>
            UNCHANGED <<dbExists, tableExists, ledger, schema, txn>> ]_vars

\* A list has returned on a ledger that holds the rows of earlier runs.
C11_Witness ==
    \E p \in Procs :
      /\ rs[p].cmd = "list" /\ rs[p].pc = "done" /\ rs[p].result = "ok"
      /\ Len(ledger) >= 3
      /\ ledger = rs[p].ledger0

\* ------------------------------------------------------- concurrent commands

\* The database as create leaves it: the table with the genesis row.
InitCreated ==
    /\ dbExists = TRUE
    /\ tableExists = TRUE
    /\ ledger = << [ version        |-> -1,
                     migration      |-> [name |-> "__baseline__"],
                     migration_hash |-> base_hash ] >>
    /\ schema = [p \in Procs |-> {}]
    /\ txn = [p \in Procs |-> NoTxn]
    /\ rs = [p \in Procs |-> IdleRun]

\* The migration directory of the project: every up file.
UpDir == { f \in FileNames : PREFIX_TO_TYPE(f[1]) = "up" }

\* Two operators run up once each against the same database and the same
\* directory, neither waiting for the other: the steps of their processes
\* interleave.  Each connection has its own transaction; the SELECT reads
\* committed rows.
StepConcurrent(p) ==
    \/ \E version \in Versions : up(p, UpDir, version)
    \/ select(p)
    \/ _apply_migration_read(p)
    \/ _apply_migration_execute(p)
    \/ _apply_migration_record(p)
    \/ commit(p)

NextConcurrent == \E p \in Procs : StepConcurrent(p)

SpecConcurrent == InitCreated /\ [][NextConcurrent]_vars

\* C12, the read: whatever the other process is doing, the step that reads
\* the latest row is neither refused nor made to wait for it; it takes the
\* version and the hash of the latest committed row.
C12_ReadUnlocked ==
    \A p \in Procs :
      (rs[p].pc = "select" /\ rs'[p] # rs[p]) =>
        /\ rs'[p].result # "error"
        /\ rs'[p].curr_version = ledger[Len(ledger)].version
        /\ rs'[p].pc = "read" =>
             rs'[p].migration_hash = ledger[Len(ledger)].migration_hash

\* C12, the append: the commit of a migration appends its row with the hash
\* the run carries, whatever rows were committed since the run read the latest
\* one.
C12_AppendUnchecked ==
    \A p \in Procs :
      (rs[p].pc = "commit" /\ rs'[p] # rs[p]) =>
        /\ Len(ledger') = Len(ledger) + 1
        /\ SubSeq(ledger', 1, Len(ledger)) = ledger
        /\ ledger'[Len(ledger')].migration_hash = rs[p].migration_hash
        /\ ledger'[Len(ledger')].migration = rs[p].migrations[rs[p].i].file

\* C12, what is left of the chain: the hash of a row is chained from the hash
\* of some row before it, not always the one just before it.
C12_ChainedFromSomeRow ==
    \A n \in 2..Len(ledger) :
      \E m \in 1..(n - 1) :
        ledger[n].migration_hash =
          Chain(ledger[m].migration_hash, FileContent(ledger[n].migration))

\* C12: two up runs against one database are not coordinated.  Reading the
\* latest row and appending a row are separate steps that no lock protects: a
\* run reads the latest committed row whatever the other run is doing, and
\* appends its rows with the hash chained from what it read whatever was
\* committed in between.
C12_NotCoordinated ==
    /\ [][C12_ReadUnlocked /\ C12_AppendUnchecked]_vars
    /\ []C12_ChainedFromSomeRow

\* Both runs read the genesis row and both have applied and committed the
\* first up file of version 1 (two INSERT statements): the ledger holds two
\* rows for that file, with the same hash, chained from the hash of the
\* genesis row.
C12_Witness ==
    \E p, q \in Procs :
      /\ p # q
      /\ \A u \in {p, q} :
           /\ rs[u].cmd = "up"
           /\ rs[u].curr_version = -1
           /\ rs[u].i >= 2 \/ (rs[u].pc = "done" /\ rs[u].result = "ok")
           /\ Len(rs[u].reads) >= 1
           /\ rs[u].reads[1] = <<"dml", "dml">>
      /\ rs[p].migrations[1] = rs[q].migrations[1]
      /\ Len(ledger) >= 3
      /\ ledger[2] = ledger[3]
      /\ ledger[2].migration = rs[p].migrations[1].file
      /\ ledger[2].migration_hash =
           Chain(ledger[1].migration_hash, <<"dml", "dml">>)

\* The content holds no statement.
NoStatements(content) == content \in { <<>>, <<"blank">> }

\* The hash the run carried when it came to the j-th migration of its list.
HashBefore(p, j) ==
    IF j = 1
    THEN rs[p].ledger0[Len(rs[p].ledger0)].migration_hash
    ELSE NewRows(p)[j - 1].migration_hash

\* What C13 asks of the j-th migration of the run of p.
EmptyMigrationApplied(p, j) ==
    /\ rs[p].warned
    /\ rs[p].failed # j
    /\ rs[p].i = j => (rs[p].pc \in {"record", "commit", "done"}
                        /\ rs[p].result # "error")
    /\ (rs[p].i > j \/ (rs[p].pc = "done" /\ rs[p].result = "ok")) =>
         /\ Len(NewRows(p)) >= j
         /\ NewRows(p)[j].version = rs[p].migrations[j].ver_to
         /\ NewRows(p)[j].migration = rs[p].migrations[j].file
         /\ NewRows(p)[j].migration_hash =
              Chain(HashBefore(p, j), rs[p].reads[j])

\* C13: when the content of a selected migration holds no statement, the run
\* does not fail at it: it prints a warning, and once past it has committed a
\* row for it with version = its ver_to and hash = Chain(previous hash, its
\* content), and goes on with the next migration of the list.
C13_EmptyMigration ==
    \A p \in Procs :
      HasSliced(p) =>
        \A j \in 1..Len(rs[p].reads) :
          NoStatements(rs[p].reads[j]) => EmptyMigrationApplied(p, j)

\* ------------------------------------------------------------ directory scan

\* An operator lists directories that hold files of any name.
NextScan ==
    \/ \E dir \in ScanDirs : list_migrations(Operator, dir)
    \/ exit(Operator)

SpecScan == Init /\ [][NextScan]_vars

\* The grammar of migration file names, ^(U|V)(\d+)(__(.+))?\.sql$ : a
\* direction marker, digits, an optional description behind two underscores,
\* and the suffix .sql.
InGrammar(name) ==
    \E n \in 1..Len(name) :
      LET rest == SubSeq(name, n + 2, Len(name))
          body == SubSeq(rest, 1, Len(rest) - 4)
      IN  /\ Len(name) >= n + 5
          /\ name[1] \in {"U", "V"}
          /\ \A i \in 2..(n + 1) : name[i] \in SeqSet(Digits)
          /\ SubSeq(rest, Len(rest) - 3, Len(rest)) = <<".", "s", "q", "l">>
          /\ \/ body = <<>>
             \/ Len(body) >= 3 /\ body[1] = "_" /\ body[2] = "_"

\* C14: the lists scanned from a directory hold one descriptor for every name
\* of the directory that is in the grammar and none for any other name; the
\* descriptors of V files are in the up list and those of U files in the down
\* list; the up list is ascending by ver_to and the down list by ver_from.
C14_DirectoryScan ==
    \A p \in Procs :
      (rs[p].cmd = "list" /\ rs[p].pc = "done") =>
        LET ups   == rs[p].scanned.up
            downs == rs[p].scanned.down
            all   == ups \o downs
            names == { name \in rs[p].dir : InGrammar(name) }
        IN  /\ { all[n].file : n \in 1..Len(all) } = names
            /\ Len(all) = Cardinality(names)
            /\ \A n \in 1..Len(ups) :
                 ups[n].type = "up" /\ ups[n].file[1] = "V"
            /\ \A n \in 1..Len(downs) :
                 downs[n].type = "down" /\ downs[n].file[1] = "U"
            /\ \A a, b \in 1..Len(ups) :
                 a < b => ups[a].ver_to <= ups[b].ver_to
            /\ \A a, b \in 1..Len(downs) :
                 a < b => downs[a].ver_from <= downs[b].ver_from

\* The number captured from the name of a descriptor's file, as an integer.
CapturedNumber(m) == int(MIGR_MATCH(m.file).num)

\* C15: a descriptor made from an up file with captured number N has
\* ver_from = N - 1 and ver_to = N; one made from a down file has ver_from = N
\* and ver_to = N - 1; the key `ver` of either is N.
C15_VersionArithmetic ==
    \A p \in Procs :
      (rs[p].cmd = "list" /\ rs[p].pc = "done") =>
        /\ \A n \in 1..Len(rs[p].scanned.up) :
             LET m == rs[p].scanned.up[n]
                 N == CapturedNumber(m)
             IN  m.ver_from = N - 1 /\ m.ver_to = N /\ Ver(m) = N
        /\ \A n \in 1..Len(rs[p].scanned.down) :
             LET m == rs[p].scanned.down[n]
                 N == CapturedNumber(m)
             IN  m.ver_from = N /\ m.ver_to = N - 1 /\ Ver(m) = N

\* A directory with V2__a.sql, U1__a.sql and U10__a.sql has been listed: the
\* up list holds 1 -> 2 and the down list 1 -> 0 and then 10 -> 9.
C15_Witness ==
    \E p \in Procs :
      /\ rs[p].cmd = "list" /\ rs[p].pc = "done" /\ rs[p].result = "ok"
      /\ Len(rs[p].scanned.up) = 1
      /\ rs[p].scanned.up[1].ver_from = 1 /\ rs[p].scanned.up[1].ver_to = 2
      /\ Len(rs[p].scanned.down) = 2
      /\ rs[p].scanned.down[1].ver_from = 1
      /\ rs[p].scanned.down[1].ver_to = 0
      /\ rs[p].scanned.down[2].ver_from = 10
      /\ rs[p].scanned.down[2].ver_to = 9

\* C16, the state: a run in which a statement of a migration failed has
\* ended in an error, with no transaction open.
C16_Halted ==
    \A p \in Procs :
      rs[p].failed > 0 =>
        /\ rs[p].pc = "done" /\ rs[p].result = "error"
        /\ txn[p] = NoTxn

\* C16, the steps: the step at which a statement fails sends nothing after
\* it, and from then on the process sends no statement and commits nothing:
\* all it does is end.
C16_NothingAfter ==
    \A p \in Procs :
      /\ (rs[p].failed = 0 /\ rs'[p].failed > 0) =>
           /\ rs'[p].failed = rs[p].i
           /\ rs'[p].nexec = rs[p].nexec + 1
           /\ Len(ledger') <= Len(ledger) + Len(txn[p].ledger)
      /\ rs[p].failed > 0 =>
           /\ rs'[p] \in {rs[p], IdleRun}
           /\ UNCHANGED <<dbExists, tableExists, ledger, txn>>

\* C16: once a statement of a selected migration has failed, the run executes
\* and commits nothing more, of that migration or of a later one, and is over.
C16_HaltOnFirstFailure == [][C16_NothingAfter]_vars /\ []C16_Halted

\* A run of two migrations has failed at the first one: the second one was
\* selected and never read.
C16_Witness ==
    \E p \in Procs :
      /\ rs[p].pc = "done" /\ rs[p].failed = 1
      /\ Len(rs[p].migrations) = 2
      /\ Len(rs[p].reads) = 1
      /\ ledger = rs[p].ledger0

\* The versions of the migrations of a list are distinct.
DistinctVersions(ms) ==
    \A a, b \in 1..Len(ms) : a # b => Ver(ms[a]) # Ver(ms[b])

\* C17, the state: while the run of p is at the i-th migration of its list,
\* the rows of the i - 1 migrations before it are committed, in the order of
\* the list, and no other; what the connection has open are writes of the
\* i-th migration alone, and nothing is open when the migration is read.
\* With distinct versions the rows of an up run have strictly increasing
\* versions and those of a down run strictly decreasing ones.
C17_OneAtATime ==
    \A p \in Procs :
      HasSliced(p) =>
        /\ RowsFollowList(p)
        /\ Applying(p) =>
             /\ Len(NewRows(p)) = rs[p].i - 1
             /\ \A e \in txn[p].schema :
                  e.file = rs[p].migrations[rs[p].i].file
             /\ \A n \in 1..Len(txn[p].ledger) :
                  txn[p].ledger[n].migration = rs[p].migrations[rs[p].i].file
        /\ rs[p].pc = "read" => txn[p] = NoTxn
        /\ DistinctVersions(rs[p].migrations) =>
             \A a, b \in 1..Len(NewRows(p)) :
               a < b => IF rs[p].cmd = "up"
                        THEN NewRows(p)[a].version < NewRows(p)[b].version
                        ELSE NewRows(p)[a].version > NewRows(p)[b].version

\* C17, the steps: the run moves on to the next migration only in the step
\* that commits the row of the current one.
C17_NextAfterCommit ==
    \A p \in Procs :
      (rs[p].i >= 1 /\ rs'[p].i = rs[p].i + 1) =>
        /\ rs[p].pc = "commit"
        /\ ledger' = ledger \o txn[p].ledger
        /\ Len(txn[p].ledger) = 1
        /\ txn'[p] = NoTxn

\* C17: within a run, the next migration starts only after the transaction of
\* the one before it is committed; the rows of the run are in the order of
\* the list; at most one migration's transaction is open at a time.
C17_StrictlySequential == [][C17_NextAfterCommit]_vars /\ []C17_OneAtATime

\* A down run has committed the row of its first migration and is in the
\* middle of the statements of the second, one of them written and open.
C17_Witness ==
    \E p \in Procs :
      /\ rs[p].cmd = "down" /\ rs[p].pc = "exec"
      /\ rs[p].i = 2 /\ rs[p].k = 2
      /\ Len(NewRows(p)) = 1
      /\ NewRows(p)[1].migration = rs[p].migrations[1].file
      /\ txn[p].schema = { Effect(rs[p].migrations[2], 1) }

\* C18: an up or down that was started on a ledger without a row fails when
\* it connects or when it looks up the latest row: it gets no further than
\* the lookup, ends in an error, sends no migration statement, and the ledger
\* stays without a row.
C18_UninitializedLedger ==
    \A p \in Procs :
      (rs[p].cmd \in {"up", "down"} /\ rs[p].ledger0 = <<>>) =>
        /\ rs[p].pc \in {"select", "done"}
        /\ rs[p].pc = "done" => rs[p].result = "error"
        /\ ~rs[p].warned
        /\ rs[p].nexec = 0
        /\ rs[p].reads = <<>>
        /\ txn[p] = NoTxn
        /\ ledger = <<>>

\* The table `_migration` exists and holds no row (a create was cut short
\* before its commit); an up over a directory with migrations has ended in an
\* error.
C18_Witness ==
    \E p \in Procs :
      /\ dbExists /\ tableExists /\ ledger = <<>>
      /\ rs[p].cmd = "up" /\ rs[p].pc = "done" /\ rs[p].result = "error"
      /\ Len(rs[p].migrations) >= 2

\* The versions of the list are distinct and are every integer of lo..hi.
Covers(ms, lo, hi) ==
    /\ DistinctVersions(ms)
    /\ { Ver(ms[n]) : n \in 1..Len(ms) } = lo..hi

\* C19: when an up or down that had migrations to apply has returned, the
\* version of the latest row is the ver_to of the last migration of its list.
\* So an up to t from c < t whose list covers c+1..t leaves the ledger at t,
\* and a down to t from c > t whose list covers t+1..c leaves it at t: a down
\* to c after an up from c brings the version back to c.
C19_ResultingVersion ==
    \A p \in Procs :
      ( /\ rs[p].cmd \in {"up", "down"}
        /\ rs[p].pc = "done" /\ rs[p].result = "ok"
        /\ rs[p].migrations # <<>> ) =>
        LET ms == rs[p].migrations
            c  == rs[p].curr_version
            v  == ledger[Len(ledger)].version
        IN  /\ v = ms[Len(ms)].ver_to
            /\ rs[p].version # <<>> =>
                 LET t == rs[p].version[1]
                 IN  /\ (rs[p].cmd = "up" /\ c < t /\ Covers(ms, c + 1, t))
                          => v = t
                     /\ (rs[p].cmd = "down" /\ t < c /\ Covers(ms, t + 1, c))
                          => v = t

\* The ledger was at version 1, an up to 2 took it to 2, and a down to 1 has
\* returned: the ledger is at version 1 again.
C19_Witness ==
    \E p \in Procs :
      /\ rs[p].cmd = "down" /\ rs[p].pc = "done" /\ rs[p].result = "ok"
      /\ rs[p].version = <<1>>
      /\ rs[p].curr_version = 2
      /\ Covers(rs[p].migrations, 2, 2)
      /\ Len(ledger) = 4
      /\ ledger[2].version = 1
      /\ ledger[3].version = 2
      /\ ledger[3].migration[1] = "V"
      /\ ledger[4].version = 1

\* --------------------------------------------------------- a run and a rerun

\* An operator runs up on a created database, and when the command has ended
\* runs up again over the same directory with the same --version.  The first
\* command is process 1; its locals are kept as it ended, for comparison.
FirstRun == 1

Rerun == 2

StepRun(p) ==
    \/ select(p)
    \/ _apply_migration_read(p)
    \/ _apply_migration_execute(p)
    \/ _apply_migration_record(p)
    \/ commit(p)

NextResume ==
    \/ \E version \in Versions : up(FirstRun, UpDir, version)
    \/ StepRun(FirstRun)
    \/ rs[FirstRun].pc = "done" /\ up(Rerun, UpDir, rs[FirstRun].version)
    \/ StepRun(Rerun)

SpecResume == InitCreated /\ [][NextResume]_vars

\* The rows the first run committed.
FirstRows ==
    SubSeq(ledger, Len(rs[FirstRun].ledger0) + 1, Len(rs[Rerun].ledger0))

\* C20: when an up run with list m1..mn failed at mi, the list of a second up
\* run with the same target over the same directory is exactly mi..mn, and
\* the hash it starts from is the hash recorded for m(i-1), or the hash the
\* first run started from when i = 1; when the first run applied its whole
\* list, the second run has nothing to apply, prints the warning and commits
\* no row.
C20_ResumeAfterFailure ==
    LET first == rs[FirstRun]
        again == rs[Rerun]
        n     == Len(first.migrations)
    IN  ( /\ first.cmd = "up" /\ first.pc = "done"
          /\ again.cmd = "up" /\ HasSliced(Rerun) ) =>
          /\ first.failed > 0 =>
               /\ SeqSet(again.migrations) =
                    { first.migrations[j] : j \in first.failed..n }
               /\ Len(again.migrations) = n - first.failed + 1
               /\ (again.pc = "read" /\ again.i = 1) =>
                    again.migration_hash =
                      IF first.failed = 1
                      THEN first.ledger0[Len(first.ledger0)].migration_hash
                      ELSE FirstRows[first.failed - 1].migration_hash
          /\ (first.result = "ok" /\ first.failed = 0) =>
               /\ again.migrations = <<>>
               /\ again.pc = "done" /\ again.result = "ok" /\ again.warned
               /\ ledger = again.ledger0

====
